---- MODULE Spec2Model ----
(***************************************************************************)
(* Website audit tool: the scoring engine of SimpleWebsiteAuditor          *)
(* (src/lib/simpleAuditor.js) and WebsiteAuditor (src/lib/auditor.js) and  *)
(* the POST /api/audit/analyze route (routes/audit.js, reproduced in       *)
(* src/README.md lines 328-390).                                           *)
(*                                                                         *)
(* JavaScript objects are modelled as functions from property names to     *)
(* values: a property the object does not carry is a name outside DOMAIN.  *)
(* JavaScript numbers are IEEE-754 doubles; the arithmetic of              *)
(* calculateOverallScore is modelled bit-exactly (section "doubles").      *)
(***************************************************************************)
EXTENDS Integers, Sequences, FiniteSets, TLC

(***************************************************************************)
(* Doubles.  A finite non-negative double is m * 2^e with a 53-bit         *)
(* significand m, kept here as three 24-bit limbs <<l0, l1, l2>>           *)
(* (little endian, value l0 + l1*2^24 + l2*2^48) because the significand   *)
(* does not fit a 32-bit integer.  A normalised significand has            *)
(* 2^52 <= m < 2^53, that is 16 <= l2 < 32.                                *)
(***************************************************************************)
LimbBase == 16777216

BigZero == <<0, 0, 0>>

BigOfInt(n) == <<n, 0, 0>>

BigIsZero(a) == a[1] = 0 /\ a[2] = 0 /\ a[3] = 0

BigOdd(a) == a[1] % 2 = 1

BigGeq(a, b) ==
  IF a[3] # b[3] THEN a[3] > b[3]
  ELSE IF a[2] # b[2] THEN a[2] > b[2]
  ELSE a[1] >= b[1]

BigAdd(a, b) ==
  LET s0 == a[1] + b[1]
      s1 == a[2] + b[2] + (s0 \div LimbBase)
      s2 == a[3] + b[3] + (s1 \div LimbBase)
  IN  <<s0 % LimbBase, s1 % LimbBase, s2>>

\* a - b, for a >= b
BigSub(a, b) ==
  LET d0 == a[1] - b[1]
      b0 == IF d0 < 0 THEN 1 ELSE 0
      d1 == a[2] - b[2] - b0
      b1 == IF d1 < 0 THEN 1 ELSE 0
  IN  <<d0 + b0 * LimbBase, d1 + b1 * LimbBase, a[3] - b[3] - b1>>

\* a * k, for a small factor 0 <= k <= 127
BigMulSmall(a, k) ==
  LET p0 == a[1] * k
      p1 == a[2] * k + (p0 \div LimbBase)
      p2 == a[3] * k + (p1 \div LimbBase)
  IN  <<p0 % LimbBase, p1 % LimbBase, p2>>

Pow2(k) == 2 ^ k

\* number of bits of a limb (0 for 0)
BitLen(v) == Cardinality({j \in 0..30 : Pow2(j) <= v})

BigBitLen(a) ==
  IF a[3] > 0 THEN 48 + BitLen(a[3])
  ELSE IF a[2] > 0 THEN 24 + BitLen(a[2])
  ELSE BitLen(a[1])

Limb(a, i) == IF i \in 1..3 THEN a[i] ELSE 0

\* floor(a / 2^k)
BigShr(a, k) ==
  LET w == k \div 24
      b == k % 24
      L(j) == (Limb(a, j + w) \div Pow2(b)) + (Limb(a, j + w + 1) % Pow2(b)) * Pow2(24 - b)
  IN  <<L(1), L(2), L(3)>>

\* a * 2^k, for a result below 2^72
BigShl(a, k) ==
  LET w == k \div 24
      b == k % 24
      L(j) == (Limb(a, j - w) % Pow2(24 - b)) * Pow2(b) + (Limb(a, j - w - 1) \div Pow2(24 - b))
  IN  <<L(1), L(2), L(3)>>

\* bit k of a
BigBit(a, k) == BigOdd(BigShr(a, k))

\* a mod 2^k = 0
LowBitsZero(a, k) == BigShl(BigShr(a, k), k) = a

DblZero == [m |-> BigZero, e |-> 0]

DblIsZero(x) == BigIsZero(x.m)

(***************************************************************************)
(* Rounding to nearest, ties to even, of an exact value n * 2^e (plus a    *)
(* non-zero tail below the last bit of n iff sticky) to a 53-bit           *)
(* significand: the bits below the 53rd are dropped, the first of them is  *)
(* the guard bit.                                                          *)
(***************************************************************************)
RoundToDouble(n, e, sticky) ==
  IF BigIsZero(n) THEN DblZero
  ELSE LET len == BigBitLen(n)
       IN  IF len <= 53
             THEN [m |-> BigShl(n, 53 - len), e |-> e - (53 - len)]
             ELSE LET k     == len - 53
                      q     == BigShr(n, k)
                      guard == BigBit(n, k - 1)
                      tail  == sticky \/ ~LowBitsZero(n, k - 1)
                      up    == guard /\ (tail \/ BigOdd(q))
                      r     == IF up THEN BigAdd(q, BigOfInt(1)) ELSE q
                  IN  IF r[3] >= 32 THEN [m |-> BigShr(r, 1), e |-> e + k + 1]
                                    ELSE [m |-> r, e |-> e + k]

\* the literals 0.3 = 0x13333333333333 * 2^-54 and 0.2 = 0x1999999999999A * 2^-55
Dbl03 == [m |-> <<3355443, 3355443, 19>>, e |-> -54]

Dbl02 == [m |-> <<10066330, 10066329, 25>>, e |-> -55]

\* score * weight, score an integer-valued double in 0..127: the exact
\* product has at most 60 bits and is rounded once
DblMulInt(s, w) == RoundToDouble(BigMulSmall(w.m, s), w.e, FALSE)

\* x + y: the exact sum on the smaller exponent, rounded once
DblAdd(x, y) ==
  IF DblIsZero(x) THEN y
  ELSE IF DblIsZero(y) THEN x
  ELSE LET lo == IF x.e <= y.e THEN x ELSE y
           hi == IF x.e <= y.e THEN y ELSE x
       IN  RoundToDouble(BigAdd(lo.m, BigShl(hi.m, hi.e - lo.e)), lo.e, FALSE)

(***************************************************************************)
(* x / y by long division of the significands in radix 64.  The integer    *)
(* part of x.m / y.m is 0 or 1; nine further digits give                   *)
(* q = floor(x.m * 2^54 / y.m), of 54 or 55 bits, and r # 0 iff the        *)
(* division is inexact.                                                    *)
(***************************************************************************)
DivStep(s, d) ==
  LET r64   == BigMulSmall(s.r, 64)
      digit == Cardinality({j \in 1..63 : BigGeq(r64, BigMulSmall(d, j))})
  IN  [r |-> BigSub(r64, BigMulSmall(d, digit)),
       q |-> BigAdd(BigMulSmall(s.q, 64), BigOfInt(digit))]

RECURSIVE DivDigits(_, _, _)
DivDigits(s, d, k) ==
  IF k = 0 THEN s ELSE DivDigits(DivStep(s, d), d, k - 1)

DblDiv(x, y) ==
  IF DblIsZero(x) THEN DblZero
  ELSE LET first == IF BigGeq(x.m, y.m) THEN 1 ELSE 0
           s0    == [r |-> IF first = 1 THEN BigSub(x.m, y.m) ELSE x.m, q |-> BigOfInt(first)]
           qr    == DivDigits(s0, y.m, 9)
       IN  RoundToDouble(qr.q, x.e - y.e - 54, ~BigIsZero(qr.r))

\* Math.round of a non-negative double below 2^24: the integer part plus
\* one iff the fraction is at least one half (a tie goes up)
MathRound(x) ==
  IF x.e >= 0 THEN x.m[1]
  ELSE IF x.e < -54 THEN 0
  ELSE BigShr(x.m, -x.e)[1] + (IF BigBit(x.m, -x.e - 1) THEN 1 ELSE 0)

(***************************************************************************)
(* The four categories, in the order of Object.keys(weights).              *)
(***************************************************************************)
Categories == <<"performance", "seo", "accessibility", "crawlability">>

CategorySet == {Categories[i] : i \in 1..Len(Categories)}

\* the object literal `weights`
weights == [performance |-> Dbl03, seo |-> Dbl03, accessibility |-> Dbl02, crawlability |-> Dbl02]

\* results[category] && typeof results[category].score === 'number'
HasNumericScore(results, category) ==
  category \in DOMAIN results /\ "score" \in DOMAIN results[category]

\* the forEach loop over Object.keys(weights), from the i-th key on
RECURSIVE AccumulateScores(_, _, _, _)
AccumulateScores(results, i, totalScore, totalWeight) ==
  IF i > Len(Categories) THEN [totalScore |-> totalScore, totalWeight |-> totalWeight]
  ELSE LET category == Categories[i]
       IN  IF HasNumericScore(results, category)
             THEN AccumulateScores(results, i + 1,
                    DblAdd(totalScore, DblMulInt(results[category].score, weights[category])),
                    DblAdd(totalWeight, weights[category]))
             ELSE AccumulateScores(results, i + 1, totalScore, totalWeight)

calculateOverallScore(results) ==
  LET acc == AccumulateScores(results, 1, DblZero, DblZero)
  IN  IF ~DblIsZero(acc.totalWeight)
        THEN MathRound(DblDiv(acc.totalScore, acc.totalWeight))
        ELSE 0

(***************************************************************************)
(* Scorers.                                                                *)
(***************************************************************************)
Max(a, b) == IF a >= b THEN a ELSE b

Min(a, b) == IF a <= b THEN a ELSE b

\* obj[prop] > n in JavaScript: false when the property is undefined
Gt(obj, prop, n) == prop \in DOMAIN obj /\ obj[prop] > n

\* calculatePerformanceScore with each `else if` written `if`: the tiers of
\* one metric add up
calculatePerformanceScore_cumulativeTiers(vitals, metrics) ==
  LET score0 == 100
      score1 == (IF Gt(vitals, "lcp", 4000) THEN score0 - 30 ELSE score0)
                  - (IF Gt(vitals, "lcp", 2500) THEN 15 ELSE 0)
      score2 == (IF Gt(vitals, "fid", 300) THEN score1 - 25 ELSE score1)
                  - (IF Gt(vitals, "fid", 100) THEN 10 ELSE 0)
      score3 == (IF Gt(vitals, "cls", 250) THEN score2 - 20 ELSE score2)
                  - (IF Gt(vitals, "cls", 100) THEN 10 ELSE 0)
      score4 == IF Gt(metrics, "domContentLoaded", 3000) THEN score3 - 10 ELSE score3
      score5 == IF Gt(metrics, "loadComplete", 5000) THEN score4 - 10 ELSE score4
  IN  Max(0, score5)

\* WebsiteAuditor.calculatePerformanceScore; lcp, fid, domContentLoaded and
\* loadComplete in ms, cls in thousandths (0.25 is 250, 0.1 is 100)
calculatePerformanceScore(vitals, metrics) ==
  LET score0 == 100
      score1 == IF Gt(vitals, "lcp", 4000) THEN score0 - 30
                ELSE IF Gt(vitals, "lcp", 2500) THEN score0 - 15 ELSE score0
      score2 == IF Gt(vitals, "fid", 300) THEN score1 - 25
                ELSE IF Gt(vitals, "fid", 100) THEN score1 - 10 ELSE score1
      score3 == IF Gt(vitals, "cls", 250) THEN score2 - 20
                ELSE IF Gt(vitals, "cls", 100) THEN score2 - 10 ELSE score2
      score4 == IF Gt(metrics, "domContentLoaded", 3000) THEN score3 - 10 ELSE score3
      score5 == IF Gt(metrics, "loadComplete", 5000) THEN score4 - 10 ELSE score4
  IN  Max(0, score5)

\* WebsiteAuditor.calculateSEOScore (baseline 100)
Full_calculateSEOScore(seoChecks) ==
  LET score0 == 100
      score1 == IF ~seoChecks.title.present THEN score0 - 20
                ELSE IF ~seoChecks.title.optimal THEN score0 - 10 ELSE score0
      score2 == IF ~seoChecks.metaDescription.present THEN score1 - 15
                ELSE IF ~seoChecks.metaDescription.optimal THEN score1 - 5 ELSE score1
      score3 == IF ~seoChecks.headings.hasH1 THEN score2 - 15 ELSE score2
      score4 == IF seoChecks.headings.multipleH1 THEN score3 - 10 ELSE score3
      score5 == IF seoChecks.images.altTextCoverage < 80 THEN score4 - 15 ELSE score4
      score6 == IF seoChecks.structuredData.jsonLd > 0 THEN score5 + 5 ELSE score5
  IN  Max(0, Min(100, score6))

\* the baseline-92 scorer with the h1 deduction of the baseline-100 scorer
Simple_calculateSEOScore_h1Penalty15(seoChecks) ==
  LET score0 == 92
      score1 == IF ~seoChecks.title.present THEN score0 - 25
                ELSE IF ~seoChecks.title.optimal THEN score0 - 10 ELSE score0
      score2 == IF ~seoChecks.metaDescription.present THEN score1 - 15
                ELSE IF ~seoChecks.metaDescription.optimal THEN score1 - 5 ELSE score1
      score3 == IF ~seoChecks.headings.hasH1 THEN score2 - 15 ELSE score2
      score4 == IF seoChecks.headings.multipleH1 THEN score3 - 15 ELSE score3
      score5 == IF seoChecks.images.altTextCoverage < 80 THEN score4 - 15 ELSE score4
      score6 == IF seoChecks.links.total > 0 /\ seoChecks.links.external > seoChecks.links.internal
                  THEN score5 - 10 ELSE score5
      score7 == IF seoChecks.structuredData.jsonLd > 0 THEN score6 + 5 ELSE score6
      score8 == IF seoChecks.robots.robotsTxt = "Not found" THEN score7 - 5 ELSE score7
      score9 == IF ~seoChecks.sitemap.present THEN score8 - 3 ELSE score8
  IN  Max(0, Min(100, score9))

\* the baseline-92 scorer with the title's `else if` written `if`: absent and
\* not optimal both deduct
Simple_calculateSEOScore_cumulativeTitle(seoChecks) ==
  LET score0 == 92
      score1 == (IF ~seoChecks.title.present THEN score0 - 25 ELSE score0)
                  - (IF ~seoChecks.title.optimal THEN 10 ELSE 0)
      score2 == IF ~seoChecks.metaDescription.present THEN score1 - 15
                ELSE IF ~seoChecks.metaDescription.optimal THEN score1 - 5 ELSE score1
      score3 == IF ~seoChecks.headings.hasH1 THEN score2 - 20 ELSE score2
      score4 == IF seoChecks.headings.multipleH1 THEN score3 - 15 ELSE score3
      score5 == IF seoChecks.images.altTextCoverage < 80 THEN score4 - 15 ELSE score4
      score6 == IF seoChecks.links.total > 0 /\ seoChecks.links.external > seoChecks.links.internal
                  THEN score5 - 10 ELSE score5
      score7 == IF seoChecks.structuredData.jsonLd > 0 THEN score6 + 5 ELSE score6
      score8 == IF seoChecks.robots.robotsTxt = "Not found" THEN score7 - 5 ELSE score7
      score9 == IF ~seoChecks.sitemap.present THEN score8 - 3 ELSE score8
  IN  Max(0, Min(100, score9))

\* SimpleWebsiteAuditor.calculateSEOScore (baseline 92)
Simple_calculateSEOScore(seoChecks) ==
  LET score0 == 92
      score1 == IF ~seoChecks.title.present THEN score0 - 25
                ELSE IF ~seoChecks.title.optimal THEN score0 - 10 ELSE score0
      score2 == IF ~seoChecks.metaDescription.present THEN score1 - 15
                ELSE IF ~seoChecks.metaDescription.optimal THEN score1 - 5 ELSE score1
      score3 == IF ~seoChecks.headings.hasH1 THEN score2 - 20 ELSE score2
      score4 == IF seoChecks.headings.multipleH1 THEN score3 - 15 ELSE score3
      score5 == IF seoChecks.images.altTextCoverage < 80 THEN score4 - 15 ELSE score4
      score6 == IF seoChecks.links.total > 0 /\ seoChecks.links.external > seoChecks.links.internal
                  THEN score5 - 10 ELSE score5
      score7 == IF seoChecks.structuredData.jsonLd > 0 THEN score6 + 5 ELSE score6
      score8 == IF seoChecks.robots.robotsTxt = "Not found" THEN score7 - 5 ELSE score7
      score9 == IF ~seoChecks.sitemap.present THEN score8 - 3 ELSE score8
  IN  Max(0, Min(100, score9))

\* the headingLevels.forEach loop of auditAccessibility: the number of
\* headings whose level exceeds the previous level by more than one
RECURSIVE CountStructureIssues(_, _, _, _)
CountStructureIssues(headingLevels, i, previousLevel, structureIssues) ==
  IF i > Len(headingLevels) THEN structureIssues
  ELSE CountStructureIssues(headingLevels, i + 1, headingLevels[i],
         IF headingLevels[i] > previousLevel + 1 THEN structureIssues + 1 ELSE structureIssues)

\* querySelectorAll('input:not([aria-label]):not([aria-labelledby])')
InputsWithoutLabels(doc) ==
  SelectSeq(doc.inputs, LAMBDA input : ~input.ariaLabel /\ ~input.ariaLabelledby)

\* the filter of auditAccessibility without its test of label[for=id]
InputsWithLabels_labelIgnored(doc) == InputsWithoutLabels(doc)

\* inputsWithLabels of auditAccessibility: of those, the inputs no
\* label[for=id] element refers to
InputsWithLabels(doc) ==
  SelectSeq(InputsWithoutLabels(doc), LAMBDA input : ~input.labelFor)

\* the accessibility callback returning `score` instead of Math.max(0, score)
Full_evaluateAccessibility_unclamped(doc) ==
  LET structureIssues == CountStructureIssues(doc.headingLevels, 1, 0, 0)
  IN  [issues |-> <<>>,
       score |-> 100 - doc.imagesWithoutAlt * 5 - structureIssues * 3
                     - Len(InputsWithLabels(doc)) * 8 - doc.contrastIssues * 2,
       totalElements |-> doc.totalElements]

\* the page.evaluate callback of WebsiteAuditor.auditAccessibility, on a
\* document given by what the callback queries of it
Full_evaluateAccessibility(doc) ==
  LET structureIssues == CountStructureIssues(doc.headingLevels, 1, 0, 0)
      issues0 == <<>>
      issues1 == IF doc.imagesWithoutAlt > 0
                   THEN Append(issues0, [type |-> "error", message |-> "images missing alt text",
                                         count |-> doc.imagesWithoutAlt])
                   ELSE issues0
      score1  == IF doc.imagesWithoutAlt > 0 THEN 100 - doc.imagesWithoutAlt * 5 ELSE 100
      issues2 == IF structureIssues > 0
                   THEN Append(issues1, [type |-> "warning", message |-> "Heading structure may skip levels",
                                         count |-> structureIssues])
                   ELSE issues1
      score2  == IF structureIssues > 0 THEN score1 - structureIssues * 3 ELSE score1
      issues3 == IF Len(InputsWithLabels(doc)) > 0
                   THEN Append(issues2, [type |-> "error", message |-> "form inputs missing labels",
                                         count |-> Len(InputsWithLabels(doc))])
                   ELSE issues2
      score3  == IF Len(InputsWithLabels(doc)) > 0 THEN score2 - Len(InputsWithLabels(doc)) * 8 ELSE score2
      issues4 == IF doc.contrastIssues > 0
                   THEN Append(issues3, [type |-> "warning", message |-> "potential color contrast issues",
                                         count |-> doc.contrastIssues])
                   ELSE issues3
      score4  == IF doc.contrastIssues > 0 THEN score3 - doc.contrastIssues * 2 ELSE score3
  IN  [issues |-> issues4, score |-> Max(0, score4), totalElements |-> doc.totalElements]

\* the page.evaluate callback of WebsiteAuditor.auditCrawlability
Full_evaluateCrawlability(doc) ==
  LET issues0 == <<>>
      jsOnly  == doc.scriptCount > 0 /\ ~doc.hasContent
      issues1 == IF jsOnly
                   THEN Append(issues0, [type |-> "error", severity |-> "high",
                          message |-> "Page appears to be JavaScript-only with no visible content"])
                   ELSE issues0
      score1  == IF jsOnly THEN 100 - 30 ELSE 100
      issues2 == IF ~doc.viewport
                   THEN Append(issues1, [type |-> "warning", severity |-> "medium",
                          message |-> "Missing viewport meta tag"])
                   ELSE issues1
      score2  == IF ~doc.viewport THEN score1 - 10 ELSE score1
      issues3 == IF ~doc.canonical
                   THEN Append(issues2, [type |-> "warning", severity |-> "medium",
                          message |-> "Missing canonical URL"])
                   ELSE issues2
      score3  == IF ~doc.canonical THEN score2 - 5 ELSE score2
      issues4 == IF doc.urlHasHash
                   THEN Append(issues3, [type |-> "info", severity |-> "low",
                          message |-> "URL contains hash fragments"])
                   ELSE issues3
      score4  == IF doc.urlHasHash THEN score3 - 2 ELSE score3
  IN  [issues |-> issues4, score |-> Max(0, score4),
       hasContent |-> doc.hasContent, scriptCount |-> doc.scriptCount]

(***************************************************************************)
(* Recommendations (the same function text in both auditors).              *)
(***************************************************************************)
\* obj[prop] < n in JavaScript: false when the property is undefined
Lt(obj, prop, n) == prop \in DOMAIN obj /\ obj[prop] < n

PerformanceRecommendation ==
  [category |-> "Performance", priority |-> "high",
   message |-> "Improve Core Web Vitals - focus on LCP, FID, and CLS"]

TitleRecommendation ==
  [category |-> "SEO", priority |-> "high", message |-> "Add a title tag to your page"]

MetaDescriptionRecommendation ==
  [category |-> "SEO", priority |-> "medium", message |-> "Add a meta description"]

AccessibilityRecommendation ==
  [category |-> "Accessibility", priority |-> "high", message |-> "Improve accessibility compliance"]

CrawlabilityRecommendation ==
  [category |-> "Crawlability", priority |-> "medium", message |-> "Improve page crawlability"]

\* results.seo.title.present (or .metaDescription.present) is read of an
\* object that has no such property: a TypeError
SeoFactsMissing(seo) == "title" \notin DOMAIN seo \/ "metaDescription" \notin DOMAIN seo

\* generateRecommendations with the negation of `!results.seo.title.present`
\* dropped
generateRecommendations_titleTestInverted(results) ==
  LET recs1 == IF Lt(results.performance, "score", 70)
                 THEN <<PerformanceRecommendation>> ELSE <<>>
      seoLow == Lt(results.seo, "score", 70)
      recs2 == IF seoLow /\ results.seo.title.present
                 THEN Append(recs1, TitleRecommendation) ELSE recs1
      recs3 == IF seoLow /\ ~results.seo.metaDescription.present
                 THEN Append(recs2, MetaDescriptionRecommendation) ELSE recs2
      recs4 == IF Lt(results.accessibility, "score", 70)
                 THEN Append(recs3, AccessibilityRecommendation) ELSE recs3
      recs5 == IF Lt(results.crawlability, "score", 70)
                 THEN Append(recs4, CrawlabilityRecommendation) ELSE recs4
  IN  IF seoLow /\ SeoFactsMissing(results.seo)
        THEN [threw |-> TRUE, value |-> <<>>]
        ELSE [threw |-> FALSE, value |-> recs5]

\* generateRecommendations: [threw |-> FALSE, value |-> the list returned], or
\* [threw |-> TRUE, value |-> <<>>] when the body raises a TypeError
generateRecommendations(results) ==
  LET recs0 == <<>>
      recs1 == IF Lt(results.performance, "score", 70)
                 THEN Append(recs0, PerformanceRecommendation) ELSE recs0
      seoLow == Lt(results.seo, "score", 70)
      recs2 == IF seoLow /\ ~results.seo.title.present
                 THEN Append(recs1, TitleRecommendation) ELSE recs1
      recs3 == IF seoLow /\ ~results.seo.metaDescription.present
                 THEN Append(recs2, MetaDescriptionRecommendation) ELSE recs2
      recs4 == IF Lt(results.accessibility, "score", 70)
                 THEN Append(recs3, AccessibilityRecommendation) ELSE recs3
      recs5 == IF Lt(results.crawlability, "score", 70)
                 THEN Append(recs4, CrawlabilityRecommendation) ELSE recs4
  IN  IF seoLow /\ SeoFactsMissing(results.seo)
        THEN [threw |-> TRUE, value |-> <<>>]
        ELSE [threw |-> FALSE, value |-> recs5]

(***************************************************************************)
(* Strings are sequences of characters.                                    *)
(***************************************************************************)
\* String.prototype.includes
Includes(str, pat) ==
  \E i \in 1..(Len(str) - Len(pat) + 1) : SubSeq(str, i, i + Len(pat) - 1) = pat

Pat_optimizemydata == <<"o", "p", "t", "i", "m", "i", "z", "e", "m", "y", "d", "a", "t", "a">>

Pat_google == <<"g", "o", "o", "g", "l", "e">>

Pat_facebook == <<"f", "a", "c", "e", "b", "o", "o", "k">>

Pat_example_com == <<"e", "x", "a", "m", "p", "l", "e", ".", "c", "o", "m">>

Pat_github_io == <<"g", "i", "t", "h", "u", "b", ".", "i", "o">>

isComplexSite(url) ==
  Includes(url, Pat_optimizemydata) \/ Includes(url, Pat_google) \/ Includes(url, Pat_facebook)

isSimpleSite(url) == Includes(url, Pat_example_com) \/ Includes(url, Pat_github_io)

(***************************************************************************)
(* SimpleWebsiteAuditor: canned signal bundles.                            *)
(***************************************************************************)
PerformanceNote ==
  "Performance data estimated using Google Lighthouse parameters (browser-based audit unavailable)"

AccessibilityNote ==
  "Accessibility data estimated using Google Lighthouse parameters (browser-based audit unavailable)"

\* the canned values with an lcp that varies with the url
MockPerformanceValues_urlDependent(url) ==
  IF isComplexSite(url)
    THEN [performanceScore |-> 86, lcp |-> 700 + Len(url), fid |-> 180, cls |-> 44, fcp |-> 600,
          tbt |-> 180, si |-> 4000]
  ELSE IF isSimpleSite(url)
    THEN [performanceScore |-> 95, lcp |-> 800 + Len(url), fid |-> 50, cls |-> 20, fcp |-> 400,
          tbt |-> 50, si |-> 1500]
  ELSE [performanceScore |-> 78, lcp |-> 1800 + Len(url), fid |-> 120, cls |-> 50, fcp |-> 800,
        tbt |-> 120, si |-> 2500]

\* the canned values without the branch of the simple sites
MockPerformanceValues_simpleAsDefault(url) ==
  IF isComplexSite(url)
    THEN [performanceScore |-> 86, lcp |-> 700, fid |-> 180, cls |-> 44, fcp |-> 600, tbt |-> 180, si |-> 4000]
  ELSE [performanceScore |-> 78, lcp |-> 1800, fid |-> 120, cls |-> 50, fcp |-> 800, tbt |-> 120, si |-> 2500]

\* the canned values with the simple sites tested before the complex ones
MockPerformanceValues_simpleFirst(url) ==
  IF isSimpleSite(url)
    THEN [performanceScore |-> 95, lcp |-> 800, fid |-> 50, cls |-> 20, fcp |-> 400, tbt |-> 50, si |-> 1500]
  ELSE IF isComplexSite(url)
    THEN [performanceScore |-> 86, lcp |-> 700, fid |-> 180, cls |-> 44, fcp |-> 600, tbt |-> 180, si |-> 4000]
  ELSE [performanceScore |-> 78, lcp |-> 1800, fid |-> 120, cls |-> 50, fcp |-> 800, tbt |-> 120, si |-> 2500]

\* the values assigned in the three branches; cls in thousandths
MockPerformanceValues(url) ==
  IF isComplexSite(url)
    THEN [performanceScore |-> 86, lcp |-> 700, fid |-> 180, cls |-> 44, fcp |-> 600, tbt |-> 180, si |-> 4000]
  ELSE IF isSimpleSite(url)
    THEN [performanceScore |-> 95, lcp |-> 800, fid |-> 50, cls |-> 20, fcp |-> 400, tbt |-> 50, si |-> 1500]
  ELSE [performanceScore |-> 78, lcp |-> 1800, fid |-> 120, cls |-> 50, fcp |-> 800, tbt |-> 120, si |-> 2500]

createMockPerformanceData(url) ==
  LET v == MockPerformanceValues(url)
  IN  [coreWebVitals |-> [lcp |-> v.lcp, fid |-> v.fid, cls |-> v.cls,
                          fcp |-> v.fcp, tbt |-> v.tbt, si |-> v.si],
       metrics |-> [domContentLoaded |-> v.fcp + 200, loadComplete |-> v.lcp + 300,
                    firstPaint |-> v.fcp - 50, firstContentfulPaint |-> v.fcp,
                    largestContentfulPaint |-> v.lcp, totalBlockingTime |-> v.tbt,
                    speedIndex |-> v.si],
       score |-> v.performanceScore,
       note |-> PerformanceNote]

MockAccessibilityIssues ==
  << [type |-> "warning", severity |-> "medium", category |-> "Navigation", count |-> 1,
      message |-> "Heading elements are not in a sequentially-descending order"],
     [type |-> "info", severity |-> "low", category |-> "Audio and video", count |-> 1,
      message |-> "<video> elements contain a <track> element with [kind=captions]"] >>

\* the issues.forEach loop of createMockAccessibilityData
RECURSIVE DeductSeverities(_, _, _)
DeductSeverities(issues, i, score) ==
  IF i > Len(issues) THEN score
  ELSE DeductSeverities(issues, i + 1,
         IF issues[i].severity = "high" THEN score - 10
         ELSE IF issues[i].severity = "medium" THEN score - 5
         ELSE IF issues[i].severity = "low" THEN score - 2
         ELSE score)

\* the canned accessibility bundle with an empty note
createMockAccessibilityData_noNote ==
  [issues |-> MockAccessibilityIssues,
   score |-> Max(0, DeductSeverities(MockAccessibilityIssues, 1, 98)),
   totalElements |-> 150, passedAudits |-> 25, manualChecks |-> 10,
   note |-> ""]

createMockAccessibilityData ==
  [issues |-> MockAccessibilityIssues,
   score |-> Max(0, DeductSeverities(MockAccessibilityIssues, 1, 98)),
   totalElements |-> 150, passedAudits |-> 25, manualChecks |-> 10,
   note |-> AccessibilityNote]

ComplexSeoChecks ==
  [title |-> [present |-> TRUE, length |-> 45, optimal |-> TRUE],
   metaDescription |-> [present |-> TRUE, length |-> 125, optimal |-> TRUE],
   headings |-> [h1 |-> 1, h2 |-> 3, h3 |-> 5, h4 |-> 2, h5 |-> 0, h6 |-> 0,
                 hasH1 |-> TRUE, multipleH1 |-> FALSE],
   images |-> [total |-> 8, withAlt |-> 6, withoutAlt |-> 2, altTextCoverage |-> 75],
   links |-> [total |-> 15, internal |-> 8, external |-> 7, withTitle |-> 3],
   structuredData |-> [jsonLd |-> 1, microdata |-> 0, rdfa |-> 0],
   robots |-> [metaRobots |-> "index, follow", robotsTxt |-> "Not found"],
   sitemap |-> [present |-> FALSE, url |-> ""]]

DefaultSeoChecks ==
  [title |-> [present |-> TRUE, length |-> 15, optimal |-> FALSE],
   metaDescription |-> [present |-> TRUE, length |-> 20, optimal |-> FALSE],
   headings |-> [h1 |-> 1, h2 |-> 2, h3 |-> 3, h4 |-> 1, h5 |-> 0, h6 |-> 0,
                 hasH1 |-> TRUE, multipleH1 |-> FALSE],
   images |-> [total |-> 5, withAlt |-> 4, withoutAlt |-> 1, altTextCoverage |-> 80],
   links |-> [total |-> 10, internal |-> 6, external |-> 4, withTitle |-> 2],
   structuredData |-> [jsonLd |-> 0, microdata |-> 0, rdfa |-> 0],
   robots |-> [metaRobots |-> "index, follow", robotsTxt |-> "Not found"],
   sitemap |-> [present |-> FALSE, url |-> ""]]

\* { ...seoChecks, score }
WithScore(seoChecks, score) ==
  [k \in DOMAIN seoChecks \cup {"score"} |-> IF k = "score" THEN score ELSE seoChecks[k]]

\* SimpleWebsiteAuditor.auditSEO
Simple_auditSEO(url) ==
  LET seoChecks == IF isComplexSite(url) THEN ComplexSeoChecks ELSE DefaultSeoChecks
  IN  WithScore(seoChecks, Simple_calculateSEOScore(seoChecks))

\* SimpleWebsiteAuditor.auditCrawlability
Simple_auditCrawlability(url) ==
  IF isComplexSite(url)
    THEN [issues |-> << [type |-> "warning", severity |-> "medium",
                         message |-> "Links are not crawlable"] >>,
          score |-> 85, url |-> url, hasContent |-> TRUE, scriptCount |-> 5]
    ELSE [issues |-> << [type |-> "warning", severity |-> "medium",
                         message |-> "Missing viewport meta tag"] >>,
          score |-> 90, url |-> url, hasContent |-> TRUE, scriptCount |-> 5]

\* the `results` object literal of auditWebsite (the timestamp left out)
NewResults(url) ==
  [url |-> url, performance |-> <<>>, seo |-> <<>>, accessibility |-> <<>>,
   crawlability |-> <<>>, overallScore |-> 0, recommendations |-> <<>>]

\* SimpleWebsiteAuditor.auditWebsite as a function of its url: the value it
\* returns, or the Error its catch block throws
Simple_auditWebsite(url) ==
  LET assembled == [NewResults(url) EXCEPT !.seo = Simple_auditSEO(url),
                                           !.crawlability = Simple_auditCrawlability(url),
                                           !.performance = createMockPerformanceData(url),
                                           !.accessibility = createMockAccessibilityData]
      scored == [assembled EXCEPT !.overallScore = calculateOverallScore(assembled)]
      recs == generateRecommendations(scored)
  IN  IF recs.threw
        THEN [threw |-> TRUE, value |-> <<>>,
              error |-> [message |-> <<"Simple audit failed: ", "TypeError">>]]
      ELSE [threw |-> FALSE, value |-> [scored EXCEPT !.recommendations = recs.value],
            error |-> <<>>]

(***************************************************************************)
(* State.                                                                  *)
(***************************************************************************)
VARIABLES
  fn,           \* SpecFn: the function under application
  args,         \* SpecFn: its arguments
  ret,          \* SpecFn: its return value
  pc,           \* SpecFn: "call" before the application, "ret" after it
  mode,         \* "route": POST /api/audit/analyze requests served by the
                \* SimpleWebsiteAuditor; "full": one WebsiteAuditor.auditWebsite
                \* call; "shared": overlapping auditWebsite and close calls on
                \* one WebsiteAuditor; "fn": SpecFn
  body,         \* body[r]: the JSON body of request r (the url of the call in mode "full")
  hpc,          \* hpc[r]: where the route handler of request r stands
  responses,    \* responses[r]: the responses sent for request r, in order
  engineCalls,  \* engineCalls[r]: invocations of simpleAuditor.auditWebsite for request r
  apc,          \* apc[r]: where auditWebsite of run r stands
  error,        \* error[r]: the Error auditWebsite of run r threw, <<>> if none
  task,         \* task[r][c]: the promise of the audit of category c in run r
  taskValue,    \* taskValue[r][c]: the value that promise fulfilled with, <<>> before
  results,      \* results[r]: the `results` object of run r, <<>> before it is created
  pageBrowser,  \* pageBrowser[r]: the browser the audits of run r opened their pages on
  openPages,    \* openPages[r]: the categories whose audit of run r has returned
                \* and left the page it opened unclosed
  browser,      \* WebsiteAuditor.browser: a browser handle, NoBrowser for null
  initialized,  \* WebsiteAuditor.initialized
  running,      \* the browsers launched and not closed
  launches,     \* the number of browsers launched so far; the handle of the last one
  closeCalls    \* the number of close() calls made so far

fnVars == <<fn, args, ret, pc>>

routeVars == <<body, hpc, responses, engineCalls>>

auditVars == <<apc, error, task, taskValue, results, pageBrowser, openPages>>

browserVars == <<browser, initialized, running, launches, closeCalls>>

progVars == <<mode, body, hpc, responses, engineCalls, apc, error, task, taskValue, results,
              pageBrowser, openPages, browser, initialized, running, launches, closeCalls>>

vars == <<fn, args, ret, pc, mode, body, hpc, responses, engineCalls, apc, error, task,
          taskValue, results, pageBrowser, openPages, browser, initialized, running, launches,
          closeCalls>>

\* the number of concurrent requests
NumRequests == 2

Requests == 1..NumRequests

\* this.browser = null
NoBrowser == 0

\* the number of close() calls followed
MaxCloseCalls == 1

\* the program at rest, as SpecFn leaves it
ProgIdle ==
  /\ mode = "fn"
  /\ body = [r \in Requests |-> <<>>]
  /\ hpc = [r \in Requests |-> "idle"]
  /\ responses = [r \in Requests |-> <<>>]
  /\ engineCalls = [r \in Requests |-> 0]
  /\ apc = [r \in Requests |-> "idle"]
  /\ error = [r \in Requests |-> <<>>]
  /\ task = [r \in Requests |-> [c \in CategorySet |-> "idle"]]
  /\ taskValue = [r \in Requests |-> [c \in CategorySet |-> <<>>]]
  /\ results = [r \in Requests |-> <<>>]
  /\ pageBrowser = [r \in Requests |-> NoBrowser]
  /\ openPages = [r \in Requests |-> {}]
  /\ browser = NoBrowser
  /\ initialized = FALSE
  /\ running = {}
  /\ launches = 0
  /\ closeCalls = 0

(***************************************************************************)
(* SpecFn: every scoring function applied to every input of a bounded      *)
(* input set.                                                              *)
(***************************************************************************)
\* scores a category bundle may carry
ScoreSamples == {0, 60, 61, 62, 64, 70, 80, 90, 100}

\* a category of `results`: an object without a score, or one with a score
ScoreBundles == {<<>>} \cup {[score |-> s] : s \in ScoreSamples}

OverallArgs == [CategorySet -> ScoreBundles]

\* a measurement that was not observed is a property the object lacks
Undefined == -1

ObjectOf(rec) == [k \in {k \in DOMAIN rec : rec[k] # Undefined} |-> rec[k]]

LcpSamples == {Undefined, 2500, 2501, 4000, 4001}

FidSamples == {Undefined, 100, 101, 300, 301}

ClsSamples == {Undefined, 100, 101, 250, 251}

DomContentLoadedSamples == {3000, 3001}

LoadCompleteSamples == {5000, 5001}

PerformanceArgs ==
  { [vitals  |-> ObjectOf([lcp |-> l, fid |-> f, cls |-> c]),
     metrics |-> [domContentLoaded |-> d, loadComplete |-> lc]] :
      l \in LcpSamples, f \in FidSamples, c \in ClsSamples,
      d \in DomContentLoadedSamples, lc \in LoadCompleteSamples }

\* title and meta description: absent, present and not optimal, present and optimal
PresenceSamples ==
  {[present |-> FALSE, optimal |-> FALSE], [present |-> TRUE, optimal |-> FALSE],
   [present |-> TRUE, optimal |-> TRUE]}

\* no h1, one h1, several h1
HeadingSamples ==
  {[hasH1 |-> FALSE, multipleH1 |-> FALSE], [hasH1 |-> TRUE, multipleH1 |-> FALSE],
   [hasH1 |-> TRUE, multipleH1 |-> TRUE]}

AltCoverageSamples == {0, 79, 80, 100}

LinkSamples ==
  {[total |-> 0, internal |-> 0, external |-> 0], [total |-> 10, internal |-> 6, external |-> 4],
   [total |-> 10, internal |-> 4, external |-> 6]}

SeoArgs ==
  { [title |-> t, metaDescription |-> m, headings |-> h, images |-> [altTextCoverage |-> a],
     links |-> l, structuredData |-> [jsonLd |-> j], robots |-> [robotsTxt |-> r],
     sitemap |-> [present |-> sm]] :
      t \in PresenceSamples, m \in PresenceSamples, h \in HeadingSamples, a \in AltCoverageSamples,
      l \in LinkSamples, j \in {0, 1}, r \in {"Not found", "User-agent: *"}, sm \in BOOLEAN }

\* the largest number of issues of one kind on a page
MaxIssues == 21

IssueCountSamples == {0, 1, MaxIssues}

HeadingLevelSamples == {<<>>, <<1, 2, 3>>, <<2>>, <<1, 3, 6>>, <<3, 1, 4>>}

\* an input element: whether it has aria-label, aria-labelledby, and a
\* label[for=id] element referring to it
UnlabelledInput == [ariaLabel |-> FALSE, ariaLabelledby |-> FALSE, labelFor |-> FALSE]

InputSamples ==
  { <<>>,
    <<UnlabelledInput>>,
    << [ariaLabel |-> TRUE, ariaLabelledby |-> FALSE, labelFor |-> FALSE],
       [ariaLabel |-> FALSE, ariaLabelledby |-> TRUE, labelFor |-> FALSE],
       [ariaLabel |-> FALSE, ariaLabelledby |-> FALSE, labelFor |-> TRUE] >>,
    << [ariaLabel |-> FALSE, ariaLabelledby |-> FALSE, labelFor |-> TRUE], UnlabelledInput,
       [ariaLabel |-> TRUE, ariaLabelledby |-> FALSE, labelFor |-> TRUE], UnlabelledInput >>,
    [i \in 1..MaxIssues |-> UnlabelledInput] }

AccessibilityArgs ==
  { [imagesWithoutAlt |-> a, headingLevels |-> h, inputs |-> f,
     contrastIssues |-> c, totalElements |-> 150] :
      a \in IssueCountSamples, h \in HeadingLevelSamples, f \in InputSamples,
      c \in IssueCountSamples }

CrawlabilityArgs ==
  { [scriptCount |-> sc, hasContent |-> hc, viewport |-> vp, canonical |-> cn, urlHasHash |-> hh] :
      sc \in {0, 5}, hc \in BOOLEAN, vp \in BOOLEAN, cn \in BOOLEAN, hh \in BOOLEAN }

\* request urls, character by character
Url_example == <<"h", "t", "t", "p", "s", ":", "/", "/", "e", "x", "a", "m", "p", "l", "e", ".", "c", "o", "m">> \* https://example.com

Url_google == <<"h", "t", "t", "p", ":", "/", "/", "g", "o", "o", "g", "l", "e", ".", "c", "o", "m">> \* http://google.com

Url_plain == <<"h", "t", "t", "p", ":", "/", "/", "a", ".", "o", "r", "g">> \* http://a.org

Url_google_github == <<"h", "t", "t", "p", ":", "/", "/", "g", "o", "o", "g", "l", "e", ".", "g", "i", "t", "h", "u", "b", ".", "i", "o">> \* http://google.github.io

Url_mailto == <<"m", "a", "i", "l", "t", "o", ":", "a", "@", "b", ".", "c">> \* mailto:a@b.c

Url_noScheme == <<"e", "x", "a", "m", "p", "l", "e", ".", "c", "o", "m">> \* example.com

Url_noHost == <<"h", "t", "t", "p", ":", "/", "/">> \* http://

Url_emptyString == <<>>

\* the strings handed to the url-keyed functions
UrlSamples == {Url_example, Url_google, Url_plain, Url_google_github, Url_mailto}

\* the strings handed to SimpleWebsiteAuditor.auditWebsite: those, and strings
\* that are no URL
AuditUrlSamples == UrlSamples \cup {Url_noScheme, Url_noHost, Url_emptyString}

\* the bundle a category audit of WebsiteAuditor returns from its catch block
ErrorMarker == [error |-> "failed", score |-> 0]

RecommendationScoreSamples == {69, 70}

RecommendationArgs ==
  { [performance |-> p, seo |-> s, accessibility |-> a, crawlability |-> c] :
      p \in {ErrorMarker} \cup {[score |-> x] : x \in RecommendationScoreSamples},
      s \in {ErrorMarker} \cup
            { [title |-> [present |-> t], metaDescription |-> [present |-> m], score |-> x] :
                t \in BOOLEAN, m \in BOOLEAN, x \in RecommendationScoreSamples },
      a \in {ErrorMarker} \cup {[score |-> x] : x \in RecommendationScoreSamples},
      c \in {ErrorMarker} \cup {[score |-> x] : x \in RecommendationScoreSamples} }

FnInit ==
  /\ ProgIdle
  /\ pc = "call"
  /\ ret = <<>>
  /\ \/ fn = "calculateOverallScore" /\ args \in OverallArgs
     \/ fn = "calculatePerformanceScore" /\ args \in PerformanceArgs
     \/ fn \in {"Full_calculateSEOScore", "Simple_calculateSEOScore"} /\ args \in SeoArgs
     \/ fn = "Full_evaluateAccessibility" /\ args \in AccessibilityArgs
     \/ fn = "Full_evaluateCrawlability" /\ args \in CrawlabilityArgs
     \/ fn \in {"createMockPerformanceData", "Simple_auditSEO", "Simple_auditCrawlability"}
          /\ args \in UrlSamples
     \/ fn = "createMockAccessibilityData" /\ args = <<>>
     \/ fn = "generateRecommendations" /\ args \in RecommendationArgs
     \/ fn = "Simple_auditWebsite" /\ args \in AuditUrlSamples

Call_calculateOverallScore ==
  /\ pc = "call"
  /\ fn = "calculateOverallScore"
  /\ ret' = calculateOverallScore(args)
  /\ pc' = "ret"
  /\ UNCHANGED <<fn, args>>
  /\ UNCHANGED progVars

Call_calculatePerformanceScore ==
  /\ pc = "call"
  /\ fn = "calculatePerformanceScore"
  /\ ret' = calculatePerformanceScore(args.vitals, args.metrics)
  /\ pc' = "ret"
  /\ UNCHANGED <<fn, args>>
  /\ UNCHANGED progVars

Call_Full_calculateSEOScore ==
  /\ pc = "call"
  /\ fn = "Full_calculateSEOScore"
  /\ ret' = Full_calculateSEOScore(args)
  /\ pc' = "ret"
  /\ UNCHANGED <<fn, args>>
  /\ UNCHANGED progVars

Call_Simple_calculateSEOScore ==
  /\ pc = "call"
  /\ fn = "Simple_calculateSEOScore"
  /\ ret' = Simple_calculateSEOScore(args)
  /\ pc' = "ret"
  /\ UNCHANGED <<fn, args>>
  /\ UNCHANGED progVars

Call_Full_evaluateAccessibility ==
  /\ pc = "call"
  /\ fn = "Full_evaluateAccessibility"
  /\ ret' = Full_evaluateAccessibility(args)
  /\ pc' = "ret"
  /\ UNCHANGED <<fn, args>>
  /\ UNCHANGED progVars

Call_Full_evaluateCrawlability ==
  /\ pc = "call"
  /\ fn = "Full_evaluateCrawlability"
  /\ ret' = Full_evaluateCrawlability(args)
  /\ pc' = "ret"
  /\ UNCHANGED <<fn, args>>
  /\ UNCHANGED progVars

Call_createMockPerformanceData ==
  /\ pc = "call"
  /\ fn = "createMockPerformanceData"
  /\ ret' = createMockPerformanceData(args)
  /\ pc' = "ret"
  /\ UNCHANGED <<fn, args>>
  /\ UNCHANGED progVars

Call_createMockAccessibilityData ==
  /\ pc = "call"
  /\ fn = "createMockAccessibilityData"
  /\ ret' = createMockAccessibilityData
  /\ pc' = "ret"
  /\ UNCHANGED <<fn, args>>
  /\ UNCHANGED progVars

Call_Simple_auditSEO ==
  /\ pc = "call"
  /\ fn = "Simple_auditSEO"
  /\ ret' = Simple_auditSEO(args)
  /\ pc' = "ret"
  /\ UNCHANGED <<fn, args>>
  /\ UNCHANGED progVars

Call_Simple_auditCrawlability ==
  /\ pc = "call"
  /\ fn = "Simple_auditCrawlability"
  /\ ret' = Simple_auditCrawlability(args)
  /\ pc' = "ret"
  /\ UNCHANGED <<fn, args>>
  /\ UNCHANGED progVars

Call_generateRecommendations ==
  /\ pc = "call"
  /\ fn = "generateRecommendations"
  /\ ret' = generateRecommendations(args)
  /\ pc' = "ret"
  /\ UNCHANGED <<fn, args>>
  /\ UNCHANGED progVars

Call_Simple_auditWebsite ==
  /\ pc = "call"
  /\ fn = "Simple_auditWebsite"
  /\ ret' = Simple_auditWebsite(args)
  /\ pc' = "ret"
  /\ UNCHANGED <<fn, args>>
  /\ UNCHANGED progVars

FnNext ==
  \/ Call_calculateOverallScore
  \/ Call_calculatePerformanceScore
  \/ Call_Full_calculateSEOScore
  \/ Call_Simple_calculateSEOScore
  \/ Call_Full_evaluateAccessibility
  \/ Call_Full_evaluateCrawlability
  \/ Call_createMockPerformanceData
  \/ Call_createMockAccessibilityData
  \/ Call_Simple_auditSEO
  \/ Call_Simple_auditCrawlability
  \/ Call_generateRecommendations
  \/ Call_Simple_auditWebsite

SpecFn == FnInit /\ [][FnNext]_vars

Returned(f) == pc = "ret" /\ fn = f

(***************************************************************************)
(* new URL(url), as far as the route relies on it: whether the string      *)
(* parses without a base.  A scheme is a letter followed by letters,       *)
(* digits, "+", "-" or "." up to the first ":"; the special schemes that   *)
(* need a host fail on an empty one; any other scheme parses whatever      *)
(* follows it (an opaque path, or "//" and a possibly empty host).         *)
(***************************************************************************)
Letters ==
  {"a", "b", "c", "d", "e", "f", "g", "h", "i", "j", "k", "l", "m", "n", "o", "p", "q", "r", "s",
   "t", "u", "v", "w", "x", "y", "z"}

Digits == {"0", "1", "2", "3", "4", "5", "6", "7", "8", "9"}

\* the first index of str holding one of chars, 0 if there is none
FirstIndex(str, chars) ==
  LET S == {i \in 1..Len(str) : str[i] \in chars}
  IN  IF S = {} THEN 0 ELSE CHOOSE i \in S : \A j \in S : i <= j

SchemeEnd(str) == FirstIndex(str, {":"})

HasScheme(str) ==
  /\ SchemeEnd(str) > 1
  /\ str[1] \in Letters
  /\ \A i \in 2..(SchemeEnd(str) - 1) : str[i] \in Letters \cup Digits \cup {"+", "-", "."}

SchemeOf(str) == SubSeq(str, 1, SchemeEnd(str) - 1)

AfterScheme(str) == SubSeq(str, SchemeEnd(str) + 1, Len(str))

\* the special schemes whose host may not be empty
SpecialSchemes ==
  {<<"h", "t", "t", "p">>, <<"h", "t", "t", "p", "s">>, <<"w", "s">>, <<"w", "s", "s">>,
   <<"f", "t", "p">>}

SkipSlashes(str) ==
  LET S == {i \in 1..Len(str) : str[i] # "/"}
  IN  IF S = {} THEN <<>> ELSE SubSeq(str, CHOOSE i \in S : \A j \in S : i <= j, Len(str))

UpToDelimiter(str) ==
  LET k == FirstIndex(str, {"/", "?", "#"})
  IN  IF k = 0 THEN str ELSE SubSeq(str, 1, k - 1)

\* the host of a string that has a scheme, <<>> when it has none
HostOf(str) ==
  LET rest == AfterScheme(str)
  IN  IF SchemeOf(str) \in SpecialSchemes THEN UpToDelimiter(SkipSlashes(rest))
      ELSE IF Len(rest) >= 2 /\ rest[1] = "/" /\ rest[2] = "/"
        THEN UpToDelimiter(SubSeq(rest, 3, Len(rest)))
      ELSE <<>>

\* new URL(str) returns instead of throwing
URLParses(str) ==
  /\ HasScheme(str)
  /\ SchemeOf(str) \in SpecialSchemes => HostOf(str) # <<>>

(***************************************************************************)
(* The program: POST /api/audit/analyze served by SimpleWebsiteAuditor     *)
(* (mode "route"), and WebsiteAuditor.auditWebsite (mode "full").          *)
(***************************************************************************)
\* the bodies of the requests: no url, an empty url, and urls
RequestBodies ==
  << <<>>, [url |-> Url_emptyString], [url |-> Url_noScheme], [url |-> Url_noHost],
     [url |-> Url_mailto], [url |-> Url_example], [url |-> Url_google],
     [url |-> Url_google_github], [url |-> Url_plain] >>

\* the handler does not read the number of its request: the requests are
\* numbered in the order of their bodies in RequestBodies
RequestBodyChoices ==
  { [r \in Requests |-> RequestBodies[idx[r]]] :
      idx \in { f \in [Requests -> DOMAIN RequestBodies] :
                  \A r1 \in Requests : \A r2 \in Requests : r1 <= r2 => f[r1] <= f[r2] } }

\* the calls of WebsiteAuditor.auditWebsite: one, or two that overlap on the
\* same WebsiteAuditor
FullRuns == IF mode = "shared" THEN {1, 2} ELSE {1}

\* the audits auditWebsite hands to Promise.all
IssuedTasks == IF mode = "route" THEN {"seo", "crawlability"} ELSE CategorySet

\* Promise.all over the issued audits has fulfilled
AllSettled_any(r) == \E c \in IssuedTasks : task[r][c] = "settled"

AllSettled(r) == \A c \in IssuedTasks : task[r][c] = "settled"

\* messages are the parts a template string concatenates
GenericAuditMessage == <<"Unable to perform audit. Please try again later.">>

\* error.message || 'An unexpected error occurred during the audit'
OrDefault(message) ==
  IF message = <<>> THEN <<"An unexpected error occurred during the audit">> ELSE message

\* the Error the route throws from its inner catch
InnerCatchError_rethrown(simpleError) == simpleError

InnerCatchError(simpleError) == [message |-> GenericAuditMessage]

ProgInit ==
  /\ fn = "none"
  /\ args = <<>>
  /\ ret = <<>>
  /\ pc = "idle"
  /\ mode \in {"route", "full", "shared"}
  /\ body \in IF mode = "route" THEN RequestBodyChoices
                ELSE {[r \in Requests |-> [url |-> Url_example]]}
  /\ hpc = [r \in Requests |-> IF mode = "route" THEN "received" ELSE "idle"]
  /\ responses = [r \in Requests |-> <<>>]
  /\ engineCalls = [r \in Requests |-> 0]
  /\ apc = [r \in Requests |-> "idle"]
  /\ error = [r \in Requests |-> <<>>]
  /\ task = [r \in Requests |-> [c \in CategorySet |-> "idle"]]
  /\ taskValue = [r \in Requests |-> [c \in CategorySet |-> <<>>]]
  /\ results = [r \in Requests |-> <<>>]
  /\ pageBrowser = [r \in Requests |-> NoBrowser]
  /\ openPages = [r \in Requests |-> {}]
  /\ browser = NoBrowser
  /\ initialized = FALSE
  /\ running = {}
  /\ launches = 0
  /\ closeCalls = 0

\* router.post('/analyze') up to its first await: the two validations, then
\* simpleAuditor.auditWebsite(url) up to its await of Promise.all; auditSEO and
\* auditCrawlability of SimpleWebsiteAuditor await nothing and return at once
Route_Receive(r) ==
  /\ mode = "route"
  /\ hpc[r] = "received"
  /\ IF "url" \notin DOMAIN body[r] \/ body[r].url = <<>>
       THEN /\ responses' = [responses EXCEPT ![r] =
                 Append(@, [status |-> 400,
                            json |-> [error |-> "URL is required",
                                      message |-> <<"Please provide a valid URL to analyze">>]])]
            /\ hpc' = [hpc EXCEPT ![r] = "done"]
            /\ UNCHANGED <<engineCalls, auditVars>>
     ELSE IF ~URLParses(body[r].url)
       THEN /\ responses' = [responses EXCEPT ![r] =
                 Append(@, [status |-> 400,
                            json |-> [error |-> "Invalid URL format",
                                      message |-> <<"Please provide a valid URL (e.g., https://example.com)">>]])]
            /\ hpc' = [hpc EXCEPT ![r] = "done"]
            /\ UNCHANGED <<engineCalls, auditVars>>
     ELSE /\ hpc' = [hpc EXCEPT ![r] = "awaitAudit"]
          /\ engineCalls' = [engineCalls EXCEPT ![r] = @ + 1]
          /\ results' = [results EXCEPT ![r] = NewResults(body[r].url)]
          /\ task' = [task EXCEPT ![r] = [c \in CategorySet |->
                        IF c \in {"seo", "crawlability"} THEN "settled" ELSE "idle"]]
          /\ taskValue' = [taskValue EXCEPT ![r] =
                             [@ EXCEPT !.seo = Simple_auditSEO(body[r].url),
                                       !.crawlability = Simple_auditCrawlability(body[r].url)]]
          /\ apc' = [apc EXCEPT ![r] = "awaitAll"]
          /\ UNCHANGED <<error, responses, pageBrowser, openPages>>
  /\ UNCHANGED <<mode, body, browserVars, fnVars>>

\* SimpleWebsiteAuditor.auditWebsite after Promise.all: the slots, the canned
\* bundles, the overall score, the recommendations, the return; an exception
\* of generateRecommendations lands in the catch block
Simple_Resume(r) ==
  /\ mode = "route"
  /\ apc[r] = "awaitAll"
  /\ AllSettled(r)
  /\ LET assembled == [results[r] EXCEPT !.seo = taskValue[r].seo,
                                         !.crawlability = taskValue[r].crawlability,
                                         !.performance = createMockPerformanceData(body[r].url),
                                         !.accessibility = createMockAccessibilityData]
         scored == [assembled EXCEPT !.overallScore = calculateOverallScore(assembled)]
         recs == generateRecommendations(scored)
     IN  IF recs.threw
           THEN /\ results' = [results EXCEPT ![r] = scored]
                /\ apc' = [apc EXCEPT ![r] = "threw"]
                /\ error' = [error EXCEPT ![r] =
                               [message |-> <<"Simple audit failed: ", "TypeError">>]]
         ELSE /\ results' = [results EXCEPT ![r] = [scored EXCEPT !.recommendations = recs.value]]
              /\ apc' = [apc EXCEPT ![r] = "returned"]
              /\ UNCHANGED error
  /\ UNCHANGED <<mode, routeVars, task, taskValue, browserVars, pageBrowser, openPages, fnVars>>

\* the catch block of SimpleWebsiteAuditor.auditWebsite, entered by a fault
\* raised inside its try block
Simple_Catch(r) ==
  /\ mode = "route"
  /\ apc[r] = "awaitAll"
  /\ apc' = [apc EXCEPT ![r] = "threw"]
  /\ error' = [error EXCEPT ![r] = [message |-> <<"Simple audit failed: ", "fault">>]]
  /\ UNCHANGED <<mode, routeVars, task, taskValue, results, browserVars, pageBrowser, openPages, fnVars>>

\* router.post('/analyze') after its await: res.json on a return; on a throw
\* the inner catch, whose Error the outer catch answers with
Route_Respond(r) ==
  /\ mode = "route"
  /\ hpc[r] = "awaitAudit"
  /\ apc[r] \in {"returned", "threw"}
  /\ responses' = [responses EXCEPT ![r] =
       IF apc[r] = "returned"
         THEN Append(@, [status |-> 200, json |-> [success |-> TRUE, data |-> results[r]]])
       ELSE Append(@, [status |-> 500,
                       json |-> [error |-> "Audit failed",
                                 message |-> OrDefault(InnerCatchError(error[r]).message)]])]
  /\ hpc' = [hpc EXCEPT ![r] = "done"]
  /\ UNCHANGED <<mode, body, engineCalls, auditVars, browserVars, fnVars>>

\* WebsiteAuditor.auditWebsite up to `await this.init()`; init up to its
\* first await
Full_Begin(r) ==
  /\ mode \in {"full", "shared"}
  /\ r \in FullRuns
  /\ apc[r] = "idle"
  /\ apc' = [apc EXCEPT ![r] = IF initialized THEN "initReturned" ELSE "awaitLaunch"]
  /\ UNCHANGED <<mode, routeVars, error, task, taskValue, results, browserVars, pageBrowser, openPages, fnVars>>

\* the first puppeteer.launch of init settles
Full_LaunchSettles(r) ==
  /\ mode \in {"full", "shared"}
  /\ r \in FullRuns
  /\ apc[r] = "awaitLaunch"
  /\ \E launched \in BOOLEAN :
       IF launched
         THEN /\ launches' = launches + 1
              /\ browser' = launches + 1
              /\ running' = running \cup {launches + 1}
              /\ initialized' = TRUE
              /\ UNCHANGED closeCalls
              /\ apc' = [apc EXCEPT ![r] = "initReturned"]
       ELSE /\ apc' = [apc EXCEPT ![r] = "awaitFallback"]
            /\ UNCHANGED browserVars
  /\ UNCHANGED <<mode, routeVars, error, task, taskValue, results, pageBrowser, openPages, fnVars>>

\* the fallback puppeteer.launch of init settles; when it fails init throws
\* and the catch block of auditWebsite rethrows
Full_FallbackSettles(r) ==
  /\ mode \in {"full", "shared"}
  /\ r \in FullRuns
  /\ apc[r] = "awaitFallback"
  /\ \E launched \in BOOLEAN :
       IF launched
         THEN /\ launches' = launches + 1
              /\ browser' = launches + 1
              /\ running' = running \cup {launches + 1}
              /\ initialized' = TRUE
              /\ UNCHANGED closeCalls
              /\ apc' = [apc EXCEPT ![r] = "initReturned"]
              /\ UNCHANGED error
       ELSE /\ apc' = [apc EXCEPT ![r] = "threwInit"]
            /\ error' = [error EXCEPT ![r] =
                           [message |-> <<"Audit failed: ", "Unable to initialize browser">>]]
            /\ UNCHANGED browserVars
  /\ UNCHANGED <<mode, routeVars, task, taskValue, results, pageBrowser, openPages, fnVars>>

\* auditWebsite after `await this.init()`: the results object and the four
\* audits; each passes its own `await this.init()`, which finds initialized
\* set, and the three that measure a page call this.browser.newPage()
Full_IssueTasks(r) ==
  /\ mode \in {"full", "shared"}
  /\ r \in FullRuns
  /\ apc[r] = "initReturned"
  /\ results' = [results EXCEPT ![r] = NewResults(body[r].url)]
  /\ task' = [task EXCEPT ![r] = [c \in CategorySet |-> "running"]]
  /\ pageBrowser' = [pageBrowser EXCEPT ![r] = browser]
  /\ apc' = [apc EXCEPT ![r] = "awaitAll"]
  /\ UNCHANGED <<mode, routeVars, error, taskValue, openPages, browserVars, fnVars>>

\* the pages the audits of WebsiteAuditor measure
PerformancePages ==
  {[vitals |-> [lcp |-> 1200, fid |-> 50, cls |-> 50],
    metrics |-> [domContentLoaded |-> 500, loadComplete |-> 1000]],
   [vitals |-> [lcp |-> 4001, fid |-> 301, cls |-> 251],
    metrics |-> [domContentLoaded |-> 3001, loadComplete |-> 5001]]}

SeoPages ==
  {[title |-> [present |-> TRUE, optimal |-> TRUE],
    metaDescription |-> [present |-> TRUE, optimal |-> TRUE],
    headings |-> [hasH1 |-> TRUE, multipleH1 |-> FALSE], images |-> [altTextCoverage |-> 100],
    links |-> [total |-> 10, internal |-> 6, external |-> 4], structuredData |-> [jsonLd |-> 0],
    robots |-> [robotsTxt |-> "User-agent: *"], sitemap |-> [present |-> TRUE]],
   [title |-> [present |-> FALSE, optimal |-> FALSE],
    metaDescription |-> [present |-> FALSE, optimal |-> FALSE],
    headings |-> [hasH1 |-> FALSE, multipleH1 |-> FALSE], images |-> [altTextCoverage |-> 0],
    links |-> [total |-> 0, internal |-> 0, external |-> 0], structuredData |-> [jsonLd |-> 0],
    robots |-> [robotsTxt |-> "Not found"], sitemap |-> [present |-> FALSE]]}

AccessibilityPages ==
  {[imagesWithoutAlt |-> 0, headingLevels |-> <<1, 2, 3>>, inputs |-> <<>>,
    contrastIssues |-> 0, totalElements |-> 150],
   [imagesWithoutAlt |-> 4, headingLevels |-> <<2>>, inputs |-> <<UnlabelledInput>>,
    contrastIssues |-> 1, totalElements |-> 150]}

CrawlabilityPages ==
  {[scriptCount |-> 0, hasContent |-> TRUE, viewport |-> TRUE, canonical |-> TRUE,
    urlHasHash |-> FALSE],
   [scriptCount |-> 5, hasContent |-> FALSE, viewport |-> FALSE, canonical |-> FALSE,
    urlHasHash |-> FALSE]}

\* what the audit of category c returns from its try block
Measured(c) ==
  IF c = "performance"
    THEN {[coreWebVitals |-> p.vitals, metrics |-> p.metrics,
           score |-> calculatePerformanceScore(p.vitals, p.metrics)] : p \in PerformancePages}
  ELSE IF c = "seo"
    THEN {WithScore(p, Full_calculateSEOScore(p)) : p \in SeoPages}
  ELSE IF c = "accessibility"
    THEN {Full_evaluateAccessibility(p) : p \in AccessibilityPages}
  ELSE {Full_evaluateCrawlability(p) : p \in CrawlabilityPages}

\* the outcomes of the audit of category c in run r. Overlapping runs audit
\* the page that scores best, and it loads: an audit fails only when its
\* browser has been closed (auditSEO fetches with axios and needs none)
Extracted(r, c) ==
  IF mode = "shared"
    THEN IF c = "seo" \/ pageBrowser[r] \in running
           THEN {CHOOSE value \in Measured(c) :
                   \A other \in Measured(c) : other.score <= value.score}
         ELSE {ErrorMarker}
  ELSE Measured(c) \cup {ErrorMarker}

\* the audits that open a page with this.browser.newPage(); auditSEO fetches
\* with axios
BrowserCategories == {"performance", "accessibility", "crawlability"}

\* the audit of category c fulfils: with its bundle after page.close(), or
\* from its catch block with the error marker. The catch block closes
\* nothing: when the failure came after newPage() (page.goto, page.evaluate)
\* the page stays open; when init() or newPage() failed there is no page
Full_Settle(r, c) ==
  /\ mode \in {"full", "shared"}
  /\ r \in FullRuns
  /\ task[r][c] = "running"
  /\ \E value \in Extracted(r, c) : \E pageOpened \in BOOLEAN :
       /\ pageOpened => (c \in BrowserCategories /\ pageBrowser[r] \in running)
       /\ (value # ErrorMarker /\ c \in BrowserCategories) => pageOpened
       /\ taskValue' = [taskValue EXCEPT ![r][c] = value]
       /\ openPages' = [openPages EXCEPT ![r] =
                          IF pageOpened /\ value = ErrorMarker THEN @ \cup {c} ELSE @]
  /\ task' = [task EXCEPT ![r][c] = "settled"]
  /\ UNCHANGED <<mode, routeVars, apc, error, results, browserVars, pageBrowser, fnVars>>

\* WebsiteAuditor.auditWebsite after Promise.all: the four slots, the overall
\* score, the recommendations, the return; an exception of
\* generateRecommendations lands in the catch block, which rethrows
Full_Resume(r) ==
  /\ mode \in {"full", "shared"}
  /\ r \in FullRuns
  /\ apc[r] = "awaitAll"
  /\ AllSettled(r)
  /\ LET assembled == [results[r] EXCEPT !.performance = taskValue[r].performance,
                                         !.seo = taskValue[r].seo,
                                         !.accessibility = taskValue[r].accessibility,
                                         !.crawlability = taskValue[r].crawlability]
         scored == [assembled EXCEPT !.overallScore = calculateOverallScore(assembled)]
         recs == generateRecommendations(scored)
     IN  IF recs.threw
           THEN /\ results' = [results EXCEPT ![r] = scored]
                /\ apc' = [apc EXCEPT ![r] = "threw"]
                /\ error' = [error EXCEPT ![r] = [message |-> <<"Audit failed: ", "TypeError">>]]
         ELSE /\ results' = [results EXCEPT ![r] = [scored EXCEPT !.recommendations = recs.value]]
              /\ apc' = [apc EXCEPT ![r] = "returned"]
              /\ UNCHANGED error
  /\ UNCHANGED <<mode, routeVars, task, taskValue, browserVars, pageBrowser, openPages, fnVars>>

\* WebsiteAuditor.close(): this.browser, if any, is closed; neither
\* this.browser nor this.initialized is assigned
Close ==
  /\ mode = "shared"
  /\ closeCalls < MaxCloseCalls
  /\ closeCalls' = closeCalls + 1
  /\ running' = IF browser # NoBrowser THEN running \ {browser} ELSE running
  /\ UNCHANGED <<browser, initialized, launches>>
  /\ UNCHANGED <<mode, routeVars, auditVars, fnVars>>

Next ==
  \/ \E r \in Requests : Route_Receive(r)
  \/ \E r \in Requests : Simple_Resume(r)
  \/ \E r \in Requests : Simple_Catch(r)
  \/ \E r \in Requests : Route_Respond(r)
  \/ \E r \in Requests : Full_Begin(r)
  \/ \E r \in Requests : Full_LaunchSettles(r)
  \/ \E r \in Requests : Full_FallbackSettles(r)
  \/ \E r \in Requests : Full_IssueTasks(r)
  \/ \E r \in Requests : \E c \in CategorySet : Full_Settle(r, c)
  \/ \E r \in Requests : Full_Resume(r)
  \/ Close

Spec == ProgInit /\ [][Next]_vars

(***************************************************************************)
(* Properties of the scoring functions (SpecFn).                           *)
(***************************************************************************)
\* the weights in tenths
WeightTenths == [performance |-> 3, seo |-> 3, accessibility |-> 2, crawlability |-> 2]

WeightedTerm(res, c) == IF HasNumericScore(res, c) THEN res[c].score * WeightTenths[c] ELSE 0

WeightTerm(res, c) == IF HasNumericScore(res, c) THEN WeightTenths[c] ELSE 0

\* ten times the sum of score * weight over the categories with a score
ExactNumerator(res) ==
  WeightedTerm(res, "performance") + WeightedTerm(res, "seo")
    + WeightedTerm(res, "accessibility") + WeightedTerm(res, "crawlability")

\* ten times the sum of the weights of the categories with a score
ExactDenominator(res) ==
  WeightTerm(res, "performance") + WeightTerm(res, "seo")
    + WeightTerm(res, "accessibility") + WeightTerm(res, "crawlability")

\* n / d rounded to the nearest integer, a tie going up (Math.round)
RoundHalfUp(n, d) == (2 * n + d) \div (2 * d)

ExactOverallScore(res) ==
  IF ExactDenominator(res) = 0 THEN 0
  ELSE RoundHalfUp(ExactNumerator(res), ExactDenominator(res))

\* C1: calculateOverallScore returns round(sum(score_c * w_c) / sum(w_c)) over
\* exactly the categories that have a numeric score, weights 0.3/0.3/0.2/0.2,
\* and 0 when no category has a score.
C1_WeightedAverage ==
  Returned("calculateOverallScore") => ret = ExactOverallScore(args)

\* the score a returned value carries
ReturnedScore ==
  IF fn \in {"calculateOverallScore", "calculatePerformanceScore",
             "Full_calculateSEOScore", "Simple_calculateSEOScore"}
    THEN ret
  ELSE IF fn = "Simple_auditWebsite" THEN ret.value.overallScore
  ELSE ret.score

\* C4: every category score a scorer produces (performance, both SEO
\* profiles, accessibility, crawlability, the canned degraded scores) and
\* every overall score is an integer in 0..100.
C4_ScoresInRange ==
  (pc = "ret" /\ fn # "generateRecommendations") => ReturnedScore \in 0..100

\* C4 witness: an accessibility audit whose deductions exceed 100 returned
\* the clamped score 0, and the full SEO scorer returned the clamped 100
C4_Witness ==
  \/ /\ Returned("Full_evaluateAccessibility")
     /\ args.imagesWithoutAlt = MaxIssues
     /\ ret.score = 0
  \/ /\ Returned("Full_calculateSEOScore")
     /\ args.structuredData.jsonLd > 0
     /\ ret = 100

TitleAbsent(seo) == "title" \notin DOMAIN seo \/ ~seo.title.present

MetaDescriptionAbsent(seo) == "metaDescription" \notin DOMAIN seo \/ ~seo.metaDescription.present

ExpectedRecommendations(res) ==
  (IF res.performance.score < 70 THEN <<PerformanceRecommendation>> ELSE <<>>)
  \o (IF res.seo.score < 70 /\ TitleAbsent(res.seo) THEN <<TitleRecommendation>> ELSE <<>>)
  \o (IF res.seo.score < 70 /\ MetaDescriptionAbsent(res.seo)
        THEN <<MetaDescriptionRecommendation>> ELSE <<>>)
  \o (IF res.accessibility.score < 70 THEN <<AccessibilityRecommendation>> ELSE <<>>)
  \o (IF res.crawlability.score < 70 THEN <<CrawlabilityRecommendation>> ELSE <<>>)

\* C6: generateRecommendations returns exactly, in this order: Performance/high
\* iff performance.score < 70; SEO/high iff seo.score < 70 and the title is
\* absent; SEO/medium iff seo.score < 70 and the meta description is absent;
\* Accessibility/high iff accessibility.score < 70; Crawlability/medium iff
\* crawlability.score < 70.
C6_ExactList ==
  Returned("generateRecommendations") =>
    ~ret.threw /\ ret.value = ExpectedRecommendations(args)

CategoryLabel ==
  [performance |-> "Performance", seo |-> "SEO", accessibility |-> "Accessibility",
   crawlability |-> "Crawlability"]

\* the number of recommendations of a category in a returned list
RecommendationCount(r, c) ==
  Cardinality({i \in DOMAIN r.value : r.value[i].category = CategoryLabel[c]})

LowScoreSamples == {0, 69}

\* results with the score of category c lowered, everything else fixed
Lowered(res, c, low) == [res EXCEPT ![c] = [res[c] EXCEPT !.score = low]]

PenaltyLCP(vitals) == IF Gt(vitals, "lcp", 4000) THEN 30 ELSE IF Gt(vitals, "lcp", 2500) THEN 15 ELSE 0

PenaltyFID(vitals) == IF Gt(vitals, "fid", 300) THEN 25 ELSE IF Gt(vitals, "fid", 100) THEN 10 ELSE 0

PenaltyCLS(vitals) == IF Gt(vitals, "cls", 250) THEN 20 ELSE IF Gt(vitals, "cls", 100) THEN 10 ELSE 0

PenaltyDCL(metrics) == IF Gt(metrics, "domContentLoaded", 3000) THEN 10 ELSE 0

PenaltyLoad(metrics) == IF Gt(metrics, "loadComplete", 5000) THEN 10 ELSE 0

BareSeoBundle(seoChecks) ==
  /\ ~seoChecks.title.present
  /\ ~seoChecks.metaDescription.present
  /\ ~seoChecks.headings.hasH1
  /\ seoChecks.images.altTextCoverage < 80

LinkPenalty(seoChecks) ==
  IF seoChecks.links.total > 0 /\ seoChecks.links.external > seoChecks.links.internal THEN 10 ELSE 0

JsonLdBonus(seoChecks) == IF seoChecks.structuredData.jsonLd > 0 THEN 5 ELSE 0

RobotsPenalty(seoChecks) == IF seoChecks.robots.robotsTxt = "Not found" THEN 5 ELSE 0

SitemapPenalty(seoChecks) == IF seoChecks.sitemap.present THEN 0 ELSE 3

TitlePenalty(seoChecks) ==
  IF ~seoChecks.title.present THEN 25 ELSE IF ~seoChecks.title.optimal THEN 10 ELSE 0

MetaDescriptionPenalty(seoChecks) ==
  IF ~seoChecks.metaDescription.present THEN 15
  ELSE IF ~seoChecks.metaDescription.optimal THEN 5 ELSE 0

\* the sum the baseline-92 scorer is specified to return
DegradedSeoFormula(seoChecks) ==
  Max(0, Min(100,
    92 - TitlePenalty(seoChecks) - MetaDescriptionPenalty(seoChecks)
       - (IF seoChecks.headings.hasH1 THEN 0 ELSE 20)
       - (IF seoChecks.headings.multipleH1 THEN 15 ELSE 0)
       - (IF seoChecks.images.altTextCoverage < 80 THEN 15 ELSE 0)
       - LinkPenalty(seoChecks) - RobotsPenalty(seoChecks) - SitemapPenalty(seoChecks)
       + JsonLdBonus(seoChecks)))

\* C12: the baseline-92 calculateSEOScore returns the clamp to 0..100 of 92
\* less 25 (title absent) or 10 (title not optimal), less 15 (meta description
\* absent) or 5 (not optimal), less 20 (no h1), less 15 (several h1), less 15
\* (alt coverage below 80), less 10 (links, mostly external), less 5
\* (robots.txt not found), less 3 (no sitemap), plus 5 (JSON-LD); the clamp is
\* applied once, after all of them.
C12_DegradedSeoFormula ==
  Returned("Simple_calculateSEOScore") => ret = DegradedSeoFormula(args)

\* C12 witness: every deduction a page without h1 can get, no bonus: the sum
\* is 92 - 93 and the clamp returns 0
C12_Witness ==
  /\ Returned("Simple_calculateSEOScore")
  /\ BareSeoBundle(args)
  /\ LinkPenalty(args) = 10
  /\ RobotsPenalty(args) = 5
  /\ SitemapPenalty(args) = 3
  /\ JsonLdBonus(args) = 0
  /\ ret = 0

\* the headings whose level exceeds the level before them by more than one,
\* the level before the first heading being 0
HierarchySkips(levels) ==
  Cardinality({i \in 1..Len(levels) : levels[i] > (IF i = 1 THEN 0 ELSE levels[i - 1]) + 1})

\* the inputs with no aria-label, no aria-labelledby and no label element
\* referring to their id
UnlabelledInputs(inputs) ==
  Cardinality({i \in 1..Len(inputs) :
                 ~inputs[i].ariaLabel /\ ~inputs[i].ariaLabelledby /\ ~inputs[i].labelFor})

SeverityCount(issues, severity) ==
  Cardinality({i \in 1..Len(issues) : issues[i].severity = severity})

\* C17: the accessibility score of the full auditor is
\* max(0, 100 - 5a - 3h - 8f - 2c): a images without alt, h heading-hierarchy
\* skips, f inputs without any label, c elements whose colour equals their
\* background; the canned score of the simple auditor is 98 less 10 per high,
\* 5 per medium and 2 per low severity issue of the canned list, clamped at 0.
C17_AccessibilityFormula ==
  /\ Returned("Full_evaluateAccessibility") =>
       ret.score = Max(0, 100 - 5 * args.imagesWithoutAlt - 3 * HierarchySkips(args.headingLevels)
                              - 8 * UnlabelledInputs(args.inputs) - 2 * args.contrastIssues)
  /\ Returned("createMockAccessibilityData") =>
       ret.score = Max(0, 98 - 10 * SeverityCount(ret.issues, "high")
                             - 5 * SeverityCount(ret.issues, "medium")
                             - 2 * SeverityCount(ret.issues, "low"))

\* C17 witness: a page with one issue of three kinds and two hierarchy skips,
\* among inputs of which some are labelled, scored 100 - 5 - 6 - 16 - 2
C17_Witness ==
  /\ Returned("Full_evaluateAccessibility")
  /\ args.imagesWithoutAlt = 1
  /\ HierarchySkips(args.headingLevels) = 2
  /\ Len(args.inputs) = 4
  /\ UnlabelledInputs(args.inputs) = 2
  /\ args.contrastIssues = 1
  /\ ret.score = 71

(***************************************************************************)
(* Properties of the audit runs and of the route (Spec).                   *)
(***************************************************************************)
\* the categories whose audit returned from its catch block in run r
FailedCategories(r) == {c \in CategorySet : "error" \in DOMAIN taskValue[r][c]}

\* the result of run r without the categories that failed
WithoutFailed(r) ==
  [c \in CategorySet |-> IF c \in FailedCategories(r) THEN <<>> ELSE results[r][c]]

\* C2: in a run where the extraction of a category failed, overallScore is the
\* weighted average of the remaining categories over the remaining weights;
\* the failed category is not counted as a score of 0.
C2_FailedCategoryExcluded ==
  \A r \in FullRuns :
    (mode = "full" /\ apc[r] = "returned" /\ FailedCategories(r) # {}) =>
      results[r].overallScore = calculateOverallScore(WithoutFailed(r))

\* C3: in the full auditor a run in which exactly one category failed returns
\* a result: the four slots hold what the audits returned (the failed one the
\* error marker), and auditWebsite does not throw.
C3_SingleFailureContained ==
  \A r \in FullRuns :
    (mode = "full" /\ apc[r] \in {"returned", "threw"} /\ Cardinality(FailedCategories(r)) = 1) =>
      /\ apc[r] = "returned"
      /\ \A c \in CategorySet : results[r][c] = taskValue[r][c]

\* C5: in both auditors, the step that assembles the result, computes the
\* overall score and generates the recommendations is taken only when every
\* issued category task has settled, and every slot it reads holds the value
\* that task of this run settled with.
C5_AggregationAfterAllSettle ==
  [][\A r \in Requests :
       (apc[r] = "awaitAll" /\ results'[r] # results[r]) =>
         \A c \in IssuedTasks :
           /\ task[r][c] = "settled"
           /\ results'[r][c] = taskValue[r][c]]_vars

\* C5 witness: a full run returned a result assembled from four settled
\* tasks, one of which settled by its contained failure
C5_Witness ==
  /\ mode = "full"
  /\ apc[1] = "returned"
  /\ \A c \in CategorySet : task[1][c] = "settled"
  /\ FailedCategories(1) = {"crawlability"}
  /\ results[1].crawlability = ErrorMarker

\* the body carries a url that has a scheme and a host
HasSchemeAndHost(b) ==
  /\ "url" \in DOMAIN b
  /\ HasScheme(b.url)
  /\ HostOf(b.url) # <<>>

\* C8: a request without a url, or whose url has no scheme or no host, is
\* answered 400 and simpleAuditor.auditWebsite is never invoked for it.
C8_InvalidUrlRejected ==
  \A r \in Requests :
    (mode = "route" /\ hpc[r] # "received" /\ ~HasSchemeAndHost(body[r])) =>
      /\ engineCalls[r] = 0
      /\ Len(responses[r]) = 1
      /\ responses[r][1].status = 400

Parts(message) == {message[i] : i \in DOMAIN message}

\* C9: every request with a valid url receives exactly one response: none is
\* sent twice, a request not yet answered always has its next step ready, and
\* the answer is 200 with {success: true, data: result} when the audit
\* returned, 500 with {error, message} when it threw, the message a generic
\* text holding no part of the message of the error the audit threw.
C9_ExactlyOneResponse ==
  \A r \in Requests :
    (mode = "route" /\ HasSchemeAndHost(body[r])) =>
      /\ Len(responses[r]) <= 1
      /\ Len(responses[r]) = 1 <=> hpc[r] = "done"
      /\ hpc[r] \in {"received", "awaitAudit", "done"}
      /\ hpc[r] = "awaitAudit" =>
           /\ apc[r] \in {"awaitAll", "returned", "threw"}
           /\ apc[r] = "awaitAll" => AllSettled(r)
      /\ hpc[r] = "done" =>
           /\ apc[r] \in {"returned", "threw"}
           /\ apc[r] = "returned" =>
                responses[r][1] =
                  [status |-> 200, json |-> [success |-> TRUE, data |-> results[r]]]
           /\ apc[r] = "threw" =>
                /\ responses[r][1].status = 500
                /\ DOMAIN responses[r][1].json = {"error", "message"}
                /\ responses[r][1].json.message = GenericAuditMessage
                /\ Parts(responses[r][1].json.message) \cap Parts(error[r].message) = {}

\* C9 witness: one request answered 500 after the audit threw while another,
\* valid too, still awaits its audit
C9_Witness ==
  /\ mode = "route"
  /\ HasSchemeAndHost(body[1])
  /\ HasSchemeAndHost(body[2])
  /\ hpc[1] = "done"
  /\ apc[1] = "threw"
  /\ responses[1][1].status = 500
  /\ hpc[2] = "awaitAudit"

\* the url bucket of the canned data
Bucket(url) ==
  IF isComplexSite(url) THEN "complex" ELSE IF isSimpleSite(url) THEN "simple" ELSE "default"

\* two requests whose audits returned, their urls in the same bucket
SameBucketReturned(r1, r2) ==
  /\ mode = "route"
  /\ apc[r1] = "returned"
  /\ apc[r2] = "returned"
  /\ Bucket(body[r1].url) = Bucket(body[r2].url)

C14_EstimatesFlagged ==
  \A r \in Requests :
    (mode = "route" /\ apc[r] = "returned") =>
      /\ "note" \in DOMAIN results[r].performance
      /\ results[r].performance.note # ""
      /\ results[r].performance.note =
           "Performance data estimated using Google Lighthouse parameters (browser-based audit unavailable)"
      /\ "note" \in DOMAIN results[r].accessibility
      /\ results[r].accessibility.note # ""
      /\ results[r].accessibility.note =
           "Accessibility data estimated using Google Lighthouse parameters (browser-based audit unavailable)"

\* C14 witness: a result was returned for a url of the complex bucket and
\* answered 200 with both notes in it
C14_Witness ==
  /\ mode = "route"
  /\ apc[1] = "returned"
  /\ hpc[1] = "done"
  /\ Bucket(body[1].url) = "complex"
  /\ responses[1][1].json.data.performance.note # ""
  /\ responses[1][1].json.data.accessibility.note # ""

\* C15: for a url with "example.com" or "github.io" and none of the complex
\* substrings the simple auditor returns performance.score >= 90, the SEO
\* score of the baseline-92 penalties on the returned SEO facts, the overall
\* score that is the 0.3/0.3/0.2/0.2 average of the four returned scores, and
\* no recommendation when the four scores are >= 70.
C15_SimpleSiteResult ==
  \A r \in Requests :
    (mode = "route" /\ apc[r] = "returned" /\ Bucket(body[r].url) = "simple") =>
      /\ results[r].performance.score >= 90
      /\ results[r].seo.score = DegradedSeoFormula(results[r].seo)
      /\ results[r].overallScore = ExactOverallScore(results[r])
      /\ (\A c \in CategorySet : results[r][c].score >= 70) => results[r].recommendations = <<>>

\* C15 witness: https://example.com audited: 95, 69, 91, 90, overall 85
C15_Witness ==
  /\ mode = "route"
  /\ apc[1] = "returned"
  /\ body[1].url = Url_example
  /\ results[1].performance.score = 95
  /\ results[1].seo.score = 69
  /\ results[1].accessibility.score = 91
  /\ results[1].crawlability.score = 90
  /\ results[1].overallScore = 85
  /\ results[1].recommendations = <<>>

\* the tiered-penalty formula of the performance scorer
PerformanceFormula(vitals, metrics) ==
  Max(0, 100 - PenaltyLCP(vitals) - PenaltyFID(vitals) - PenaltyCLS(vitals)
             - PenaltyDCL(metrics) - PenaltyLoad(metrics))

\* C16: in every returned result, of the full and of the simple auditor, the
\* performance score is the tiered-penalty formula evaluated on the
\* coreWebVitals and metrics of that same result.
C16_PerformanceScoreFromSignals ==
  \A r \in Requests :
    (apc[r] = "returned" /\ "coreWebVitals" \in DOMAIN results[r].performance) =>
      results[r].performance.score
        = PerformanceFormula(results[r].performance.coreWebVitals, results[r].performance.metrics)

\* the four deductions of the crawlability audit, in the order they are applied
CrawlabilityDeductions ==
  << [message |-> "Page appears to be JavaScript-only with no visible content", points |-> 30],
     [message |-> "Missing viewport meta tag", points |-> 10],
     [message |-> "Missing canonical URL", points |-> 5],
     [message |-> "URL contains hash fragments", points |-> 2] >>

\* the messages of the deductions numbered in S, in order, and their total
DeductionMessages(S) ==
  LET chosen == SelectSeq(<<1, 2, 3, 4>>, LAMBDA i : i \in S)
  IN  [k \in 1..Len(chosen) |-> CrawlabilityDeductions[chosen[k]].message]

DeductionPoints(S) ==
  LET points(i) == IF i \in S THEN CrawlabilityDeductions[i].points ELSE 0
  IN  points(1) + points(2) + points(3) + points(4)

\* a crawlability bundle lists exactly the issues of some set of deductions,
\* in order, and is scored 100 less their points, clamped at 0
FollowsCrawlabilityFormula(bundle) ==
  \E S \in SUBSET (1..4) :
    /\ [k \in 1..Len(bundle.issues) |-> bundle.issues[k].message] = DeductionMessages(S)
    /\ bundle.score = Max(0, 100 - DeductionPoints(S))

\* C18: the crawlability bundle of every returned result, the canned bundles of
\* the simple auditor included, has one issue per applied deduction (30 for
\* scripts without visible text, 10 for no viewport, 5 for no canonical link,
\* 2 for a fragment in the URL), in that order, and the score
\* max(0, 100 - the deductions applied).
C18_CrawlabilityFormula ==
  \A r \in Requests :
    (apc[r] = "returned" /\ "issues" \in DOMAIN results[r].crawlability) =>
      FollowsCrawlabilityFormula(results[r].crawlability)

\* C19: however the init() calls of one WebsiteAuditor interleave, at most one
\* browser launch succeeds and is retained: every browser that is running is
\* the one this.browser refers to, none is left running without a handle.
C19_SingleRetainedBrowser ==
  /\ launches <= 1
  /\ \A b \in running : b = browser

\* C20: in every reachable state of a WebsiteAuditor, initialized = true
\* implies that this.browser is a launched browser that has not been closed;
\* the audits of an auditWebsite call open their pages on such a browser; a
\* launch that fails twice raises 'Unable to initialize browser'.
C20_InitializedMeansUsableBrowser ==
  /\ initialized => browser \in running
  /\ \A r \in FullRuns :
       (apc[r] = "awaitAll" /\ \A c \in CategorySet : task[r][c] = "running") =>
         pageBrowser[r] \in running
  /\ \A r \in FullRuns :
       apc[r] = "threwInit" =>
         error[r] = [message |-> <<"Audit failed: ", "Unable to initialize browser">>]

\* C21: every page a category audit of the full auditor opened is closed by the
\* time that audit returns, on the success path and on every failure path:
\* after any sequence of audits no page is open.
C21_NoPageLeftOpen ==
  \A r \in Requests : openPages[r] = {}

\* the overall score of the simple auditor in each url bucket
BucketOverallScore == [complex |-> 83, simple |-> 85, default |-> 80]

\* C22: for every string url SimpleWebsiteAuditor.auditWebsite returns and
\* does not throw; the four category scores of the result are numbers, its
\* recommendations are empty (a score below 70 whose title and meta
\* description are present yields none), and its overall score is the one of
\* the url's bucket, the complex bucket going first.
C22_DegradedResult ==
  Returned("Simple_auditWebsite") =>
    /\ ~ret.threw
    /\ \A c \in CategorySet : HasNumericScore(ret.value, c) /\ ret.value[c].score \in Nat
    /\ ret.value.recommendations = <<>>
    /\ ret.value.overallScore = BucketOverallScore[Bucket(args)]

\* C22 witness: http://google.github.io, which has a complex and a simple
\* substring, returned the complex result, and a url that is no URL returned
\* the default one; with an SEO score below 70 the recommendations are empty
C22_Witness ==
  /\ Returned("Simple_auditWebsite")
  /\ ~ret.threw
  /\ ret.value.recommendations = <<>>
  /\ \/ /\ args = Url_google_github
        /\ isComplexSite(args) /\ isSimpleSite(args)
        /\ ret.value.performance.score = 86
        /\ ret.value.overallScore = 83
     \/ /\ args = Url_noHost
        /\ ret.value.seo.score = 69
        /\ ret.value.seo.title.present /\ ret.value.seo.metaDescription.present
        /\ ret.value.overallScore = 80

====
